---- MODULE Spec2Model ----
(***************************************************************************)
(* Model of the experience-replay training loop of andompesta/tutorialTF:  *)
(*   RL/DeepQLearning/train.py       work (warm-up, episode loop, yield)   *)
(*   RL/DuelingDoubleDQN/main.py     run (construction, consumer loop)     *)
(*   RL/DuelingDoubleDQN/model_dd_dqn.py  epsilon_greedy_policy, forward,  *)
(*                                        compute_q_value                  *)
(*   RL/DeepQLearning/model_dqn.py   DQN_Network.compute_action_pred       *)
(*                                                                         *)
(* Real numbers are kept exact as scaled integers: probabilities in units  *)
(* of 1/ProbDen, action values in units of 1/NumActions (the mean over the *)
(* actions divides by NumActions), TD targets in units of                  *)
(* 1/(DiscountDen*NumActions).  exp(-eps_decay) is a rational              *)
(* decay.num/decay.den, so exp(-steps*eps_decay) = num^steps/den^steps.    *)
(* Rounding of IEEE floating point is not modelled.                        *)
(*                                                                         *)
(* RL/DeepQLearning/helper.py (ExperienceBuffer, EpisodeStats,             *)
(* state_processor) is not among the sources; the buffer follows the       *)
(* written contract of the Experience Buffer (ring with write cursor,      *)
(* sample fails on too few entries).                                       *)
(***************************************************************************)
EXTENDS Integers, Sequences, FiniteSets, TLC

VARIABLES
    \* ---- work(): train.py
    pc,             \* position of the generator: "populate", "episode", "step", "yield", "aborted"
    args,           \* the run's arguments that vary between runs
    i,              \* warm-up loop index (train.py:65)
    GLOBAL_STEP,    \* module-level counter (train.py:15)
    state,          \* current stacked-frame window
    replay_memory,  \* helper.ExperienceBuffer
    params,         \* parameter storage of q_network (.q) and t_network (.t)
    stats,          \* helper.EpisodeStats
    t,              \* step index inside the episode (itertools.count)
    i_episode,
    batch,          \* slots drawn by the last replay_memory.sample
    t_values,       \* TD targets of the last training step
    \* ---- the environment and what an observer records
    n_obs,          \* frames the environment has produced so far (frame tag)
    interactions,   \* env.step calls so far
    add_log,        \* the newest frame of every transition handed to replay_memory.add, in order
    synced,         \* q_network's parameters at the most recent load_state_dict
    last_sync,      \* interaction count at the most recent sync of the loop (-1: none)
    sync_gap,       \* interactions between the two most recent syncs of the loop (0: fewer than two)
    env_status,     \* the environment: "fresh" after reset, "running", "done" after a terminal step
    yielded,        \* records the generator has handed to its consumer
    tally,          \* the observer's count of the episode loop: episodes ended, and the
                    \* env.step calls and the rewards since the last reset of the loop
    last,           \* the last env.step and what the iteration around it started from:
                    \* the window (before), the parameters (start), GLOBAL_STEP, the
                    \* number of transitions in the buffer (held); the frame and the
                    \* done the environment answered; whether the iteration synced
    \* ---- epsilon_greedy_policy: model_dd_dqn.py
    eps,            \* [start, end, decay] the closure's eps_start, eps_end, exp(-eps_decay)
    call,           \* the last policy_fn call: its inputs, its draws and what it returned
    \* ---- the networks: model_dqn.py, model_dd_dqn.py
    net             \* the last forward / value-selection call and its result

trainVars == <<pc, args, i, GLOBAL_STEP, state, replay_memory, params, stats, t,
               i_episode, batch, t_values, n_obs, interactions, add_log, synced,
               last_sync, sync_gap, env_status, yielded, tally, last>>
vars == <<pc, args, i, GLOBAL_STEP, state, replay_memory, params, stats, t,
          i_episode, batch, t_values, n_obs, interactions, add_log, synced,
          last_sync, sync_gap, env_status, yielded, tally, last, eps, call, net>>

(***************************************************************************)
(* Bounds of the model and constants of the program                        *)
(***************************************************************************)
\* env.step calls explored
MaxInteractions == 5
\* args.replay_memory_size of the modelled runs
replay_memory_size == 2
\* largest args.replay_memory_init_size of the modelled runs
MaxInitSize == 2
\* args.batch_size of the modelled runs
batch_size == 2
\* args.update_target_estimator_every of the modelled runs
update_target_estimator_every == 2
\* len(args.actions), main.py:33
NumActions == 3
\* frames per state: torch.stack([state] * 4), train.py:64
NumFrames == 4
\* args.discount_factor = 0.95 = DiscountNum / DiscountDen, main.py:38
DiscountNum == 95
DiscountDen == 100
\* probabilities are multiples of 1 / ProbDen
ProbDen == 4

ActionIds == 0 .. (NumActions - 1)

Max(S) == CHOOSE x \in S : \A y \in S : y <= x
Min2(a, b) == IF a <= b THEN a ELSE b

RECURSIVE Pow(_, _)
Pow(b, n) == IF n = 0 THEN 1 ELSE b * Pow(b, n - 1)

RECURSIVE SumSeq(_)
SumSeq(s) == IF s = <<>> THEN 0 ELSE Head(s) + SumSeq(Tail(s))

(***************************************************************************)
(* epsilon_greedy_policy (model_dd_dqn.py:10-27)                           *)
(***************************************************************************)
\* a rational num/den compared without dividing (den > 0)
RatLeq(a, b) == a.num * b.den <= b.num * a.den
RatOf(n) == [num |-> n, den |-> 1]

\* np.random.random(): a sample of [0, 1), in units of 1/ProbDen
Samples == 0 .. (ProbDen - 1)

\* np.random.randint(low, high): an integer of [low, high)
RandInt(low, high) == low .. (high - 1)

\* the schedule with the sign of the exponent lost, exp(steps_done * eps_decay)
EpsThresholdGrowing(steps_done) ==
    [num |-> eps.end * Pow(eps.decay.num, steps_done)
               + (eps.start - eps.end) * Pow(eps.decay.den, steps_done),
     den |-> Pow(eps.decay.num, steps_done)]

\* eps_end + (eps_start - eps_end) * math.exp(-1. * steps_done * eps_decay),
\* in units of 1/ProbDen, with exp(-eps_decay) = eps.decay.num / eps.decay.den
EpsThreshold(steps_done) ==
    [num |-> eps.end * Pow(eps.decay.den, steps_done)
               + (eps.start - eps.end) * Pow(eps.decay.num, steps_done),
     den |-> Pow(eps.decay.den, steps_done)]

\* torch.max(q_values, dim=0)[1]: the index of a largest entry (which one of
\* several equal entries is not fixed by the library)
BestActions(q_values) ==
    {a \in DOMAIN q_values : \A b \in DOMAIN q_values : q_values[b] <= q_values[a]}

\* policy_fn with the comparison turned round (greedy when sample < threshold)
PolicyFnFlipped(q_values, steps_done, sample, rnd) ==
    IF ~RatLeq(EpsThreshold(steps_done), RatOf(sample))
    THEN BestActions(q_values)
    ELSE {rnd}

\* policy_fn(observation, steps_done): the actions it may return when the
\* uniform sample is `sample` and randint's draw is `rnd`
PolicyFn(q_values, steps_done, sample, rnd) ==
    IF ~RatLeq(RatOf(sample), EpsThreshold(steps_done))
    THEN BestActions(q_values)
    ELSE {rnd}

\* every action policy_fn may return for these q-values at this step
PolicyActions(q_values, steps_done) ==
    UNION {PolicyFn(q_values, steps_done, sample, rnd) :
             sample \in Samples, rnd \in RandInt(0, NumActions)}

(***************************************************************************)
(* The networks.  The convolutions and the linear heads are outside the    *)
(* model: a head is any fixed function of the parameters and the input.    *)
(***************************************************************************)
\* values a head may put out
QVals == {0, 1}

\* self.value(self.value_fc(X_flatten)), model_dd_dqn.py:116-122: some fixed
\* function of the parameters p and the stacked frames x
ValueHead(p, x) == (p + x[NumFrames]) % 3

\* self.advantage(self.advantage_fc(X_flatten)), model_dd_dqn.py:124-125
AdvantageHead(p, x) == [a \in ActionIds |-> ((p + 1) * (a + 1) + x[1]) % 4]

SumOver(f) == SumSeq([k \in 1 .. NumActions |-> f[k - 1]])

\* the forward pass with the mean taken over the batch (dim=0), not the actions
QValuesMeanOverBatch(value, advantage) ==
    [r \in DOMAIN value |->
        [a \in ActionIds |->
            NumActions * value[r] + NumActions * advantage[r][a]
              - (NumActions * SumSeq([k \in DOMAIN value |-> advantage[k][a]]))
                  \div Len(value)]]

\* q_values = value + (advantage - torch.mean(advantage, dim=1, keepdim=True)),
\* for a batch of head outputs; in units of 1/NumActions
QValues(value, advantage) ==
    [r \in DOMAIN value |->
        [a \in ActionIds |->
            NumActions * value[r]
              + (NumActions * advantage[r][a] - SumOver(advantage[r]))]]

\* DDDQN_Network.forward on one observation: forward(x.unsqueeze(0))[0]
Forward(p, x) == QValues(<<ValueHead(p, x)>>, <<AdvantageHead(p, x)>>)[1]

\* the encoding of a chosen action that compute_q_value multiplies with
OneHot(action) == [a \in ActionIds |-> IF a = action THEN 1 ELSE 0]

\* DDDQN_Network.compute_q_value: torch.sum(torch.mul(q_values, actions), dim=1)
ComputeQValue(q_values, actions) ==
    [r \in DOMAIN q_values |->
        SumOver([a \in ActionIds |-> q_values[r][a] * actions[r][a]])]

\* rows of the batches handed to the networks
MaxRows == 2
\* the batch_size DQN_Network was constructed with (model_dqn.py:31)
dqn_batch_size == 2

\* self.prediction.view(-1)
RECURSIVE Flatten(_)
Flatten(rows) ==
    IF rows = <<>> THEN <<>>
    ELSE [k \in 1 .. NumActions |-> Head(rows)[k - 1]] \o Flatten(Tail(rows))

\* i_type(range(self.batch_size)) * self.action_space + self.actions_pl
\* (i_type, which the module never binds, is read as the integer tensor
\* type): tensors of equal length add element by element, a tensor of length
\* 1 is broadcast, other lengths do not add (raised)
MaskIndex(actions) ==
    IF Len(actions) = dqn_batch_size
    THEN [raised |-> FALSE,
          index |-> [k \in 1 .. dqn_batch_size |-> (k - 1) * NumActions + actions[k]]]
    ELSE IF Len(actions) = 1
    THEN [raised |-> FALSE,
          index |-> [k \in 1 .. dqn_batch_size |-> (k - 1) * NumActions + actions[1]]]
    ELSE IF dqn_batch_size = 1
    THEN [raised |-> FALSE, index |-> [k \in 1 .. Len(actions) |-> actions[k]]]
    ELSE [raised |-> TRUE, index |-> <<>>]

\* DQN_Network.compute_action_pred over the prediction cached by forward:
\* self.prediction.view(-1)[mask_index]; an index past the end raises
ComputeActionPred(prediction, actions) ==
    LET mask_index == MaskIndex(actions)
        flat == Flatten(prediction)
    IN  IF mask_index.raised \/ \E k \in DOMAIN mask_index.index :
                                    mask_index.index[k] >= Len(flat)
        THEN [raised |-> TRUE, values |-> <<>>]
        ELSE [raised |-> FALSE,
              values |-> [k \in DOMAIN mask_index.index |->
                            flat[mask_index.index[k] + 1]]]

(***************************************************************************)
(* helper.ExperienceBuffer, from the contract of the Experience Buffer     *)
(***************************************************************************)
\* a buffer built one slot too large
BufferSizeOffByOne == replay_memory_size + 1

\* ExperienceBuffer(buffer_size=args.replay_memory_size), train.py:52
BufferSize == replay_memory_size

NewBuffer == [slots |-> <<>>, cursor |-> 0]

\* add: append below capacity, else overwrite the slot under the write
\* cursor and advance the cursor circularly
BufferAdd(buf, tr) ==
    IF Len(buf.slots) < BufferSize
    THEN [buf EXCEPT !.slots = Append(buf.slots, tr)]
    ELSE [slots |-> [buf.slots EXCEPT ![buf.cursor + 1] = tr],
          cursor |-> (buf.cursor + 1) % BufferSize]

\* sample(k): k slots drawn with replacement; fewer entries than k is
\* InsufficientDataError (no draw at all).  The rows of a batch are kept in
\* slot order: nothing that reads a batch depends on the order of its rows.
BufferSample(buf, k) ==
    IF Len(buf.slots) < k THEN {}
    ELSE {b \in [1 .. k -> 1 .. Len(buf.slots)] :
            \A x \in 1 .. (k - 1) : b[x] <= b[x + 1]}

(***************************************************************************)
(* work(): the values it computes                                          *)
(***************************************************************************)
Transition(s, action, reward, next_state, done) ==
    [state |-> s, action |-> action, reward |-> reward,
     next_state |-> next_state, done |-> done]

\* float(done)
Float(done) == IF done THEN 1 ELSE 0

\* torch.stack([state] * 4, dim=1): the first frame repeated
Stack(frame) == [k \in 1 .. NumFrames |-> frame]

\* the window with the newest frame put first and the newest of the old
\* frames dropped
ShiftNewestFirst(s, frame) == <<frame>> \o SubSeq(s, 1, Len(s) - 1)

\* torch.cat((state[:, 1:, :, :], next_state.unsqueeze(dim=0)), dim=1)
Shift(s, frame) == Tail(s) \o <<frame>>

\* the target with the (1 - done) factor left out
TValuesUnmasked(reward, done, q_value_next_max) ==
    reward * DiscountDen * NumActions + DiscountNum * q_value_next_max

\* reward + args.discount_factor * ((1 - done) * q_value_next_max), train.py:168,
\* in units of 1/(DiscountDen * NumActions); q_value_next_max in 1/NumActions
TValues(reward, done, q_value_next_max) ==
    reward * DiscountDen * NumActions
      + DiscountNum * ((1 - done) * q_value_next_max)

\* t_network.forward(next_state_batch).detach().max(dim=1)[0], for one row
QValueNextMax(p, next_state) ==
    Max({Forward(p.t, next_state)[a] : a \in ActionIds})

\* t_network.load_state_dict(q_network.state_dict()): the values are copied
\* into t_network's own storage
LoadStateDict(p) == [p EXCEPT !.t = p.q]

\* the update when both networks share one parameter storage
OptimizerStepShared(p) == [q |-> p.q + 1, t |-> p.q + 1]

\* optimizer.step() over q_network.parameters(): q_network's parameters take
\* a new value
OptimizerStep(p) == [p EXCEPT !.q = p.q + 1]

\* GLOBAL_STEP % args.update_target_estimator_every == 0, train.py:139
SyncDue == GLOBAL_STEP % update_target_estimator_every = 0

\* the step with the copy left to the end of the iteration
SyncTargetLater(p) == p

\* if GLOBAL_STEP % args.update_target_estimator_every == 0:
\*     t_network.load_state_dict(q_network.state_dict()), train.py:139-140,
\* ahead of replay_memory.add, replay_memory.sample and optimizer.step
SyncTarget(p) == IF SyncDue THEN LoadStateDict(p) ELSE p

\* a warm-up loop that runs once more
WarmUpRangeOneMore == 0 .. args.replay_memory_init_size

\* range(args.replay_memory_init_size), train.py:65
WarmUpRange == 0 .. (args.replay_memory_init_size - 1)

(***************************************************************************)
(* The environment is outside the model.  env.step answers with a fresh    *)
(* frame (frames are numbered as they are produced), with done or not, and *)
(* with the reward of the end-to-end stub environment: +1 for action 0,    *)
(* -1 for any other action.                                                *)
(***************************************************************************)
EnvReward(action) == IF action = 0 THEN 1 ELSE -1

(***************************************************************************)
(* work(): the state after construction and the steps                      *)
(***************************************************************************)
\* the epsilon schedule of the modelled training runs
TrainEps == [start |-> ProbDen, end |-> 1, decay |-> [num |-> 1, den |-> 2]]

NoCall == [made |-> FALSE, q_values |-> [a \in ActionIds |-> 0], steps_done |-> 0,
           sample |-> 0, rnd |-> 0, action |-> 0, eps_threshold |-> RatOf(0)]

NoNet == [kind |-> "none", op |-> "none", prediction |-> <<>>, actions |-> <<>>,
          action_predictions |-> [raised |-> FALSE, values |-> <<>>],
          value |-> <<>>, advantage |-> <<>>, q_values |-> <<>>, q_value |-> <<>>]

NoLast == [op |-> "none", before |-> <<>>, frame |-> 0, done |-> FALSE,
           start |-> [q |-> 0, t |-> 0], global_step |-> 0, sync |-> FALSE,
           held |-> 0]

\* run() up to the first warm-up step, for the arguments a:
\* main.py:152-176, train.py:30-64
TrainStart(a) ==
    /\ args = a
    /\ pc = IF a.replay_memory_init_size = 0 THEN "episode" ELSE "populate"
    /\ i = 0
    /\ GLOBAL_STEP = 0
    /\ n_obs = 1
    /\ state = Stack(1)
    /\ replay_memory = NewBuffer
    /\ params = LoadStateDict([q |-> 0, t |-> 1])
    /\ synced = 0
    /\ stats = [episode_rewards |-> 0, episode_lengths |-> 0]
    /\ t = 0
    /\ i_episode = 0
    /\ batch = <<>>
    /\ t_values = <<>>
    /\ interactions = 0
    /\ add_log = <<>>
    /\ last_sync = -1
    /\ sync_gap = 0
    /\ env_status = "fresh"
    /\ yielded = 0
    /\ tally = [episodes |-> 0, steps |-> 0, reward |-> 0]
    /\ last = NoLast

Init ==
    /\ \E a \in [replay_memory_init_size : 0 .. MaxInitSize] : TrainStart(a)
    /\ eps = TrainEps
    /\ call = NoCall
    /\ net = NoNet

\* one iteration of the warm-up loop, train.py:65-95.  work() uses the policy
\* and the network through the interface of model_dd_dqn.py:
\* policy(state, GLOBAL_STEP) returns (action, epsilon)
Populate ==
    /\ pc = "populate"
    /\ i \in WarmUpRange
    /\ interactions < MaxInteractions
    /\ \E action \in PolicyActions(Forward(params.q, state), GLOBAL_STEP),
          done \in BOOLEAN :
         LET reward == EnvReward(action)
             next_state == Shift(state, n_obs + 1)
             tr == Transition(state, action, reward, next_state, Float(done))
         IN  /\ replay_memory' = BufferAdd(replay_memory, tr)
             /\ add_log' = Append(add_log, n_obs + 1)
             /\ last' = [op |-> "populate", before |-> state, frame |-> n_obs + 1,
                         done |-> done, start |-> params,
                         global_step |-> GLOBAL_STEP, sync |-> FALSE,
                         held |-> Len(replay_memory.slots)]
             /\ IF done
                THEN /\ state' = Stack(n_obs + 2)
                     /\ n_obs' = n_obs + 2
                     /\ env_status' = "fresh"
                ELSE /\ state' = next_state
                     /\ n_obs' = n_obs + 1
                     /\ env_status' = "running"
    /\ interactions' = interactions + 1
    /\ GLOBAL_STEP' = GLOBAL_STEP + 1
    /\ i' = i + 1
    /\ pc' = IF i + 1 \in WarmUpRange THEN "populate" ELSE "episode"
    /\ UNCHANGED <<args, params, stats, t, i_episode, batch, t_values, synced,
                   last_sync, sync_gap, yielded, tally, eps, call, net>>

\* the head of the while loop: checkpoint, reset, statistics, train.py:101-115
EpisodeStart ==
    /\ pc = "episode"
    /\ state' = Stack(n_obs + 1)
    /\ n_obs' = n_obs + 1
    /\ stats' = [episode_rewards |-> 0, episode_lengths |-> 0]
    /\ t' = 0
    /\ pc' = "step"
    /\ env_status' = "fresh"
    /\ tally' = [tally EXCEPT !.steps = 0, !.reward = 0]
    /\ UNCHANGED <<args, i, GLOBAL_STEP, replay_memory, params, i_episode, batch,
                   t_values, interactions, add_log, synced, last_sync, sync_gap,
                   yielded, last, eps, call, net>>

\* one iteration of the step loop, train.py:118-193, and on done the code
\* up to the yield, train.py:195-206
Step ==
    /\ pc = "step"
    /\ interactions < MaxInteractions
    /\ \E action \in PolicyActions(Forward(params.q, state), GLOBAL_STEP),
          done \in BOOLEAN :
         LET reward == EnvReward(action)
             next_state == Shift(state, n_obs + 1)
             tr == Transition(state, action, reward, next_state, Float(done))
             p1 == SyncTarget(params)
             buf == BufferAdd(replay_memory, tr)
             drawn == BufferSample(buf, batch_size)
         IN  /\ n_obs' = n_obs + 1
             /\ interactions' = interactions + 1
             /\ synced' = IF SyncDue THEN params.q ELSE synced
             /\ last_sync' = IF SyncDue THEN interactions + 1 ELSE last_sync
             /\ sync_gap' = IF SyncDue /\ last_sync # -1
                            THEN interactions + 1 - last_sync
                            ELSE sync_gap
             /\ replay_memory' = buf
             /\ add_log' = Append(add_log, n_obs + 1)
             /\ stats' = [episode_rewards |-> stats.episode_rewards + reward,
                          episode_lengths |-> t]
             /\ env_status' = IF done THEN "done" ELSE "running"
             /\ tally' = [episodes |-> tally.episodes + (IF done THEN 1 ELSE 0),
                          steps |-> tally.steps + 1,
                          reward |-> tally.reward + reward]
             /\ last' = [op |-> "step", before |-> state, frame |-> n_obs + 1,
                         done |-> done, start |-> params,
                         global_step |-> GLOBAL_STEP, sync |-> SyncDue,
                         held |-> Len(replay_memory.slots)]
             /\ yielded' = IF done /\ drawn # {} THEN yielded + 1 ELSE yielded
             /\ IF drawn = {}
                THEN \* replay_memory.sample raises: the generator ends
                     /\ pc' = "aborted"
                     /\ params' = p1
                     /\ UNCHANGED <<batch, t_values, state, GLOBAL_STEP, t, i_episode>>
                ELSE /\ \E b \in drawn :
                          /\ batch' = b
                          /\ t_values' =
                               [k \in DOMAIN b |->
                                  TValues(buf.slots[b[k]].reward, buf.slots[b[k]].done,
                                          QValueNextMax(p1, buf.slots[b[k]].next_state))]
                     /\ params' = OptimizerStep(p1)
                     /\ IF done
                        THEN /\ pc' = "yield"
                             /\ i_episode' = i_episode + 1
                             /\ UNCHANGED <<state, GLOBAL_STEP, t>>
                        ELSE /\ pc' = "step"
                             /\ state' = next_state
                             /\ GLOBAL_STEP' = GLOBAL_STEP + 1
                             /\ t' = t + 1
                             /\ UNCHANGED i_episode
    /\ UNCHANGED <<args, i, eps, call, net>>

\* the consumer takes the record and asks for the next, main.py:186-187
Consume ==
    /\ pc = "yield"
    /\ pc' = "episode"
    /\ UNCHANGED <<args, i, GLOBAL_STEP, state, replay_memory, params, stats, t,
                   i_episode, batch, t_values, n_obs, interactions, add_log, synced,
                   last_sync, sync_gap, env_status, yielded, tally, last,
                   eps, call, net>>

Next == Populate \/ EpisodeStart \/ Step \/ Consume

Spec == Init /\ [][Next]_vars

(***************************************************************************)
(* Properties of the training loop, checked under Spec                     *)
(***************************************************************************)
\* the transition the k-th row of the last batch was drawn from
Row(k) == replay_memory.slots[batch[k]]

\* one unit of reward in the units of t_values
RewardUnit == DiscountDen * NumActions

\* C1: every row of the batch with done = 1 has the reward itself as its TD
\* target, whatever the target network returns for next_state; a row with
\* done = 0 has reward + discount_factor * (largest value of the target
\* network on next_state)
C1_TDTarget ==
    \A k \in DOMAIN t_values :
        /\ Row(k).done = 1 => t_values[k] = Row(k).reward * RewardUnit
        /\ Row(k).done = 0 =>
             t_values[k] = Row(k).reward * RewardUnit
                 + DiscountNum * Max({Forward(params.t, Row(k).next_state)[a] :
                                        a \in ActionIds})

\* a batch with a terminal row whose next_state the target network values
\* above or below zero, and with a non-terminal row
C1_Witness ==
    \E k1, k2 \in DOMAIN t_values :
        /\ Row(k1).done = 1
        /\ Max({Forward(params.t, Row(k1).next_state)[a] : a \in ActionIds}) # 0
        /\ Row(k2).done = 0

\* C2: the target network's parameters are the online network's parameters
\* of the most recent synchronization (construction or load_state_dict in
\* the loop); gradient updates of the online network do not reach them
C2_TargetFrozenBetweenSyncs == params.t = synced

\* a sync of the loop followed by two gradient updates
C2_Witness == last_sync # -1 /\ params.q >= synced + 2 /\ params.t = synced

\* C3: two consecutive syncs of the episode loop are exactly
\* update_target_estimator_every environment interactions apart
C3_SyncEveryNInteractions ==
    sync_gap # 0 => sync_gap = update_target_estimator_every

\* C4: the global step counter equals the number of environment
\* interactions made so far (one increment per env.step call, the terminal
\* one included)
C4_GlobalStepCountsInteractions ==
    pc # "aborted" => GLOBAL_STEP = interactions

\* C5: a step that finds fewer than batch_size transitions in the buffer
\* skips the update and goes on; the training loop is never aborted by it
C5_UnderflowNeverAborts ==
    Len(replay_memory.slots) < batch_size => pc # "aborted"

YieldAtEpisodeEnd ==
    pc # "aborted" =>
        /\ yielded = tally.episodes
        /\ pc = "yield" => env_status = "done"
        /\ env_status = "done" => pc \in {"yield", "episode"}

\* C11: one record is yielded per episode, after the step that observed done
\* and before the next reset; the consumer has control only then; and the
\* generator never ends by itself
C11_OneRecordPerEpisode ==
    /\ pc # "aborted"
    /\ yielded = tally.episodes
    /\ pc = "yield" => env_status = "done"
    /\ env_status = "done" => pc \in {"yield", "episode"}

\* the record that goes out with an episode carries the sum of the episode's
\* rewards and the index t of the episode's last step, one less than the
\* number of its steps; the accumulator is zero when an episode starts
StatsOfEpisode ==
    /\ pc = "step" /\ tally.steps = 0 =>
          stats = [episode_rewards |-> 0, episode_lengths |-> 0]
    /\ pc = "yield" =>
          /\ stats.episode_rewards = tally.reward
          /\ stats.episode_lengths = tally.steps - 1

\* C12: the record yielded at the end of an episode is about that episode
\* only: the accumulator is zero when the episode starts, the reward reported
\* is the sum of the rewards of the episode's env.step calls and the length
\* reported is the number of those calls
C12_StatsDescribeEpisode ==
    /\ pc = "step" /\ tally.steps = 0 =>
          stats = [episode_rewards |-> 0, episode_lengths |-> 0]
    /\ pc = "yield" =>
          /\ stats.episode_rewards = tally.reward
          /\ stats.episode_lengths = tally.steps

\* the window w with its oldest frame dropped and frame appended last
Advanced(w, frame) ==
    [k \in 1 .. NumFrames |-> IF k < NumFrames THEN w[k + 1] ELSE frame]

TargetsFrom(p) ==
    [k \in DOMAIN batch |->
        Row(k).reward * RewardUnit
          + DiscountNum * ((1 - Row(k).done)
              * Max({Forward(p, Row(k).next_state)[a] : a \in ActionIds}))]

\* the transition of the step is in the buffer when the batch is drawn: a
\* buffer one short of batch_size before the step is enough for the draw
InsertedBeforeSampled ==
    last.op = "step" =>
        /\ last.held + 1 >= batch_size => pc # "aborted" /\ Len(batch) = batch_size
        /\ pc # "aborted" => \A k \in DOMAIN batch : batch[k] \in DOMAIN replay_memory.slots

\* C14 as the code has it: in a step of the episode loop the transition is
\* inserted before the batch is drawn; a sync due in the step (GLOBAL_STEP a
\* multiple of update_target_estimator_every when the step starts) is made
\* before the insertion, the draw and the gradient update, so that the TD
\* targets of the step are computed from the parameters the online network
\* had when the step started, and the update of the step is not in the
\* target network; in a step without sync the targets are computed from the
\* target parameters the step started with
C14_SyncBeforeUpdate ==
    /\ InsertedBeforeSampled
    /\ last.op = "step" =>
          /\ last.sync <=> last.global_step % update_target_estimator_every = 0
          /\ pc # "aborted" =>
                /\ params.q # last.start.q
                /\ last.sync =>
                      /\ params.t = last.start.q
                      /\ t_values = TargetsFrom(last.start.q)
                /\ ~last.sync =>
                      /\ params.t = last.start.t
                      /\ t_values = TargetsFrom(last.start.t)

\* a step that synced a target network which was behind the online network,
\* drew its own transition into the batch, and got, for a non-terminal row,
\* a target the parameters from before the sync do not give
C14_Witness ==
    /\ last.op = "step"
    /\ pc # "aborted"
    /\ last.sync
    /\ last.start.t # last.start.q
    /\ \E k \in DOMAIN batch : Row(k).next_state[NumFrames] = last.frame
    /\ \E k \in DOMAIN batch :
          /\ Row(k).done = 0
          /\ t_values[k] # TargetsFrom(last.start.t)[k]

\* C14: in a step of the episode loop the transition is inserted before the
\* batch is drawn, and a sync due in the step is made after the gradient
\* update of the step: the TD targets of the step are computed from the
\* target parameters from before the sync, and the target network then holds
\* the updated online parameters
C14_SyncAfterUpdate ==
    /\ InsertedBeforeSampled
    /\ last.op = "step" /\ pc # "aborted" =>
          /\ t_values = TargetsFrom(last.start.t)
          /\ last.sync => params.t = params.q

\* C15: the warm-up makes exactly replay_memory_init_size env.step calls
\* before the episode loop starts; each puts one transition into the buffer
\* and a done is followed by a reset; until the first step of the episode
\* loop no batch is drawn, no parameter of either network changes, no sync
\* of the loop is made and no record is yielded
C15_WarmUp ==
    /\ i <= args.replay_memory_init_size
    /\ pc = "populate" => i < args.replay_memory_init_size
    /\ pc # "populate" => i = args.replay_memory_init_size
    /\ interactions >= i
    /\ last.op # "step" =>
          /\ interactions = i
          /\ GLOBAL_STEP = i
          /\ Len(add_log) = i
          /\ Len(replay_memory.slots) = Min2(i, replay_memory_size)
          /\ batch = <<>>
          /\ t_values = <<>>
          /\ params = [q |-> 0, t |-> 0]
          /\ last_sync = -1
          /\ yielded = 0
          /\ tally.episodes = 0
    /\ last.op = "populate" =>
          /\ last.held = Min2(i - 1, replay_memory_size)
          /\ last.frame = add_log[i]
          /\ last.done => env_status = "fresh" /\ state = Stack(n_obs)
          /\ ~last.done /\ pc = "populate" => env_status = "running"

\* the episode loop is about to make its first step after a warm-up of two
\* steps, the first of which ended an episode: the second started from the
\* window of the reset
C15_Witness ==
    /\ pc = "step"
    /\ last.op = "populate"
    /\ i = args.replay_memory_init_size
    /\ i = 2
    /\ replay_memory.slots[1].done = 1
    /\ replay_memory.slots[2].state
         = Stack(replay_memory.slots[1].next_state[NumFrames] + 1)

(***************************************************************************)
(* epsilon_greedy_policy on its own: the closure is built for some         *)
(* eps_start, eps_end, eps_decay and policy_fn is called once              *)
(***************************************************************************)
\* largest steps_done the policy is called with
MaxSteps == 3

\* exp(-eps_decay): rates 0, ln 2, ln 3/2 and the negative rate -ln 2
Decays == {[num |-> 1, den |-> 1], [num |-> 1, den |-> 2],
           [num |-> 2, den |-> 3], [num |-> 2, den |-> 1]}

PolicyInit ==
    /\ TrainStart([replay_memory_init_size |-> 0])
    /\ eps \in [start : 0 .. ProbDen, end : 0 .. ProbDen, decay : Decays]
    /\ call = NoCall
    /\ net = NoNet

\* policy_fn(observation, steps_done), model_dd_dqn.py:16-26; q_values is
\* what network.forward returns for the observation
PolicyCall ==
    /\ ~call.made
    /\ \E q_values \in [ActionIds -> QVals], steps_done \in 0 .. MaxSteps,
          sample \in Samples, rnd \in RandInt(0, NumActions) :
         \E action \in PolicyFn(q_values, steps_done, sample, rnd) :
            call' = [made |-> TRUE, q_values |-> q_values, steps_done |-> steps_done,
                     sample |-> sample, rnd |-> rnd, action |-> action,
                     eps_threshold |-> EpsThreshold(steps_done)]
    /\ UNCHANGED <<eps, net>>
    /\ UNCHANGED trainVars

PolicySpec == PolicyInit /\ [][PolicyCall]_vars

\* C7: with the uniform draw r, r <= epsilon(step) emits the random id drawn
\* from the action set, r > epsilon(step) emits an argmax of the online
\* network's values; either way the id is one of 0 .. |actions| - 1
C7_EpsilonGreedy ==
    call.made =>
        /\ call.action \in 0 .. (NumActions - 1)
        /\ RatLeq(RatOf(call.sample), call.eps_threshold) =>
             call.action = call.rnd
        /\ ~RatLeq(RatOf(call.sample), call.eps_threshold) =>
             \A b \in ActionIds : call.q_values[b] <= call.q_values[call.action]

\* a greedy decision after the first step that differs from the random draw
C7_Witness ==
    /\ call.made
    /\ call.steps_done > 0
    /\ ~RatLeq(RatOf(call.sample), call.eps_threshold)
    /\ call.action # call.rnd
    /\ \E b \in ActionIds : call.q_values[b] < call.q_values[call.action]

\* eps_start >= eps_end and eps_decay >= 0
C8_Pre == eps.start >= eps.end /\ eps.decay.num <= eps.decay.den

NetInit ==
    /\ TrainStart([replay_memory_init_size |-> 0])
    /\ eps = TrainEps
    /\ call = NoCall
    /\ net \in {[NoNet EXCEPT !.kind = k] : k \in {"DQN", "DDDQN"}}

\* DQN_Network.forward, model_dqn.py:76-87: the prediction is cached
DQNForward ==
    /\ net.kind = "DQN"
    /\ net.op = "none"
    /\ \E m \in 1 .. MaxRows :
         \E prediction \in [1 .. m -> [ActionIds -> QVals]] :
            net' = [net EXCEPT !.op = "forward", !.prediction = prediction]
    /\ UNCHANGED <<eps, call>>
    /\ UNCHANGED trainVars

\* DQN_Network.compute_action_pred, model_dqn.py:89-100, with the actions
\* chosen for the rows of the batch forward was last called with
DQNComputeActionPred ==
    /\ net.kind = "DQN"
    /\ net.op = "forward"
    /\ \E actions \in [1 .. Len(net.prediction) -> ActionIds] :
         net' = [net EXCEPT !.op = "compute_action_pred", !.actions = actions,
                            !.action_predictions =
                                ComputeActionPred(net.prediction, actions)]
    /\ UNCHANGED <<eps, call>>
    /\ UNCHANGED trainVars

\* DDDQN_Network.forward, model_dd_dqn.py:109-129, on a batch of m states
\* for which the heads put out value and advantage
DDDQNForward ==
    /\ net.kind = "DDDQN"
    /\ net.op = "none"
    /\ \E m \in 1 .. MaxRows :
         \E value \in [1 .. m -> QVals], advantage \in [1 .. m -> [ActionIds -> QVals]] :
            net' = [net EXCEPT !.op = "forward", !.value = value,
                               !.advantage = advantage,
                               !.q_values = QValues(value, advantage)]
    /\ UNCHANGED <<eps, call>>
    /\ UNCHANGED trainVars

\* DDDQN_Network.compute_q_value, model_dd_dqn.py:131-140, with the one-hot
\* encoding of the actions chosen for the rows
DDDQNComputeQValue ==
    /\ net.kind = "DDDQN"
    /\ net.op = "none"
    /\ \E m \in 1 .. MaxRows :
         \E value \in [1 .. m -> QVals], advantage \in [1 .. m -> [ActionIds -> QVals]],
            actions \in [1 .. m -> ActionIds] :
            LET q_values == QValues(value, advantage)
            IN  net' = [net EXCEPT !.op = "compute_q_value", !.value = value,
                                   !.advantage = advantage, !.q_values = q_values,
                                   !.actions = actions,
                                   !.q_value =
                                      ComputeQValue(q_values,
                                          [k \in 1 .. m |-> OneHot(actions[k])])]
    /\ UNCHANGED <<eps, call>>
    /\ UNCHANGED trainVars

NetNext == DQNForward \/ DQNComputeActionPred \/ DDDQNForward \/ DDDQNComputeQValue

NetSpec == NetInit /\ [][NetNext]_vars

\* C9: in the dueling forward pass Q(s,a1) - Q(s,a2) = A(s,a1) - A(s,a2) for
\* every state of the batch and every pair of actions (q_values are in units
\* of 1/NumActions): the state value V(s) has no part in the difference
C9_DuelingDifference ==
    net.kind = "DDDQN" =>
        \A k \in DOMAIN net.q_values : \A a1, a2 \in ActionIds :
            net.q_values[k][a1] - net.q_values[k][a2]
              = NumActions * (net.advantage[k][a1] - net.advantage[k][a2])

\* a batch of two states with different state values and advantages that
\* differ between the actions and between the states
C9_Witness ==
    /\ net.kind = "DDDQN"
    /\ net.op = "forward"
    /\ Len(net.q_values) >= 2
    /\ net.value[1] # net.value[2]
    /\ net.advantage[1] # net.advantage[2]
    /\ \E a1, a2 \in ActionIds : net.advantage[1][a1] # net.advantage[1][a2]

\* compute_action_pred returns, for each row of the batch, the cached value
\* of the action chosen for that row
ActionPredGathers ==
    net.op = "compute_action_pred" =>
        /\ ~net.action_predictions.raised
        /\ Len(net.action_predictions.values) = Len(net.actions)
        /\ \A k \in DOMAIN net.actions :
              net.action_predictions.values[k] = net.prediction[k][net.actions[k]]

\* compute_q_value returns, for each row of the batch, the value of the
\* action chosen for that row
QValueGathers ==
    net.op = "compute_q_value" =>
        /\ Len(net.q_value) = Len(net.actions)
        /\ \A k \in DOMAIN net.actions :
              net.q_value[k] = net.q_values[k][net.actions[k]]

\* C10: selecting the value of the chosen actions is a gather by index,
\* output[i] = value_batch[i, action_batch[i]], in compute_action_pred for
\* every batch passed and in compute_q_value
C10_GatherByIndex == ActionPredGathers /\ QValueGathers

====
